---- MODULE Spec2Model ----
(***************************************************************************)
(* GoodBooks API: a FastAPI service over a MongoDB database                *)
(* (src/app/main.py) and the batch loader that fills the database from CSV *)
(* files (src/ingest/ingest.py).                                           *)
(*                                                                         *)
(* The database is modelled as five collections, each a sequence of        *)
(* documents in natural (insertion) order.  A document is a function from  *)
(* field names to typed values; every stored document has an "_id".        *)
(***************************************************************************)
EXTENDS Integers, Sequences, FiniteSets, TLC

VARIABLES
    db,        \* collection name -> sequence of documents
    indexes,   \* collection name -> set of unique index keys (sets of fields)
    resp,      \* the response of the request being served, or NoResponse
    before,    \* the ratings collection when that request arrived
    csv,       \* dataset name -> the rows pd.read_csv yields for its URL
    loader,    \* the loader's position in main(): 0 = indexes, 1..5 = datasets
    ingested,  \* dataset name -> number of completed ingest_collection runs
    firstLoad, \* dataset name -> the collection right after its first run
    reran,     \* main() has been started a second time
    cpc,       \* concurrent request -> "new" | "insert" | "done"
    creq,      \* concurrent request -> its RatingIn body
    cresp,     \* concurrent request -> its response
    latest     \* <<user_id, book_id>> -> rating of the last write applied, 0 if none

vars == <<db, indexes, resp, before, csv, loader, ingested, firstLoad, reran, cpc, creq, cresp, latest>>

-----------------------------------------------------------------------------
(* Typed values: BSON / pandas cells.                                      *)

Num(n) == [type |-> "number", val |-> n]
Str(s) == [type |-> "string", val |-> s]       \* s is a tuple of characters
ObjectId(n) == [type |-> "objectId", val |-> n]
None == [type |-> "null", val |-> 0]
NaN == [type |-> "nan", val |-> 0]             \* a missing CSV cell

\* Python truthiness, as used by "if q:", "if min_avg:", "if year_from:".
Truthy(v) ==
    CASE v.type = "null" -> FALSE
      [] v.type = "number" -> v.val # 0
      [] v.type = "string" -> v.val # <<>>
      [] OTHER -> TRUE

Min(S) == CHOOSE x \in S : \A y \in S : x <= y

-----------------------------------------------------------------------------
(* Bounds of the model.                                                    *)

MaxRows == 3        \* rows per CSV file
MaxConcurrent == 2  \* concurrent POST /ratings requests
MaxPage == 3        \* largest page number requested
MaxPageSize == 2    \* largest small page size requested

Users == {1, 2}
Books == {1, 2}

-----------------------------------------------------------------------------
(* The document store: pymongo primitives used by the code.                *)

CollectionNames == {"books", "tags", "ratings", "book_tags", "to_read"}

EmptyDb == [n \in CollectionNames |-> <<>>]

\* An equality filter {field: value, ...} matches a document.
Matches(doc, filter) ==
    \A k \in DOMAIN filter : k \in DOMAIN doc /\ doc[k] = filter[k]

FirstMatch(coll, filter) ==
    LET S == {i \in 1..Len(coll) : Matches(coll[i], filter)}
    IN  IF S = {} THEN 0 ELSE Min(S)

\* A faulty ApplySet: {"$setOnInsert": set}, which leaves present fields alone.
set_on_insert(doc, set) ==
    [k \in DOMAIN doc \cup DOMAIN set |-> IF k \in DOMAIN doc THEN doc[k] ELSE set[k]]

\* {"$set": set} applied to a document.
ApplySet(doc, set) ==
    [k \in DOMAIN doc \cup DOMAIN set |-> IF k \in DOMAIN set THEN set[k] ELSE doc[k]]

\* A fresh _id; nothing is ever deleted, so the length is unused.
NewObjectId(coll) == ObjectId(Len(coll) + 1)

\* The document an upsert inserts: the filter's equality fields, then $set.
UpsertDoc(coll, filter, set) ==
    ApplySet(ApplySet("_id" :> NewObjectId(coll), filter), set)

\* A faulty update_one: insert_one of the same document, whatever is stored.
insert_one(coll, filter, set) ==
    [coll |-> Append(coll, UpsertDoc(coll, filter, set)),
     matched_count |-> 0, upserted_id |-> NewObjectId(coll)]

\* collection.update_one(filter, {"$set": set}, upsert=True), run alone.
update_one(coll, filter, set) ==
    LET i == FirstMatch(coll, filter)
    IN  IF i # 0
        THEN [coll |-> [coll EXCEPT ![i] = ApplySet(@, set)],
              matched_count |-> 1, upserted_id |-> None]
        ELSE [coll |-> Append(coll, UpsertDoc(coll, filter, set)),
              matched_count |-> 0, upserted_id |-> NewObjectId(coll)]

-----------------------------------------------------------------------------
(* The loader (src/ingest/ingest.py).                                      *)

\* main() ingests the datasets in this order.
Datasets == <<"books", "tags", "ratings", "book_tags", "to_read">>

\* The key_fields main() passes for each dataset.
KeyFields ==
    [books |-> {"book_id"}, tags |-> {"tag_id"}, ratings |-> {"user_id", "book_id"},
     book_tags |-> {"goodreads_book_id", "tag_id"}, to_read |-> {"user_id", "book_id"}]

\* A faulty create_indexes: the (user_id, book_id) index of ratings is not unique.
create_indexes_ratings_not_unique ==
    [books |-> {{"book_id"}}, tags |-> {{"tag_id"}}, ratings |-> {},
     book_tags |-> {{"goodreads_book_id", "tag_id"}}, to_read |-> {{"user_id", "book_id"}}]

\* The unique indexes create_indexes() builds.
create_indexes ==
    [books |-> {{"book_id"}}, tags |-> {{"tag_id"}}, ratings |-> {{"user_id", "book_id"}},
     book_tags |-> {{"goodreads_book_id", "tag_id"}}, to_read |-> {{"user_id", "book_id"}}]

NoIndexes == [n \in CollectionNames |-> {}]

\* A faulty fillna: missing cells are left as they are.
keep_nan(row) == row

\* df.fillna(""): a missing cell becomes the empty string.
fillna(row) == [k \in DOMAIN row |-> IF row[k] = NaN THEN Str(<<>>) ELSE row[k]]

filter_doc(data, key_fields) == [k \in key_fields |-> data[k]]

\* bulk_write of one UpdateOne(filter_doc, {"$set": data}, upsert=True) per row,
\* in row order.
RECURSIVE bulk_write(_, _, _)
bulk_write(coll, rows, key_fields) ==
    IF rows = <<>> THEN coll
    ELSE LET data == fillna(Head(rows))
         IN  bulk_write(update_one(coll, filter_doc(data, key_fields), data).coll,
                        Tail(rows), key_fields)

-----------------------------------------------------------------------------
(* CSV sources.  Each file holds up to MaxRows rows taken from a sample    *)
(* table; the same row positions are taken from every table.               *)

BookRow(id, gr, title, authors, year, avg, rc) ==
    [book_id |-> Num(id), goodreads_book_id |-> Num(gr), title |-> Str(title),
     authors |-> Str(authors), original_publication_year |-> year,
     average_rating |-> Num(avg), ratings_count |-> Num(rc), image_url |-> Str(<<"u">>)]

\* average_rating is kept in hundredths (440 is 4.40).
Samples ==
    [books |-> <<
        BookRow(1, 10, <<"A", "b">>, <<"b">>, Num(1), 440, 5),
        BookRow(2, 20, <<"b">>, <<"A">>, NaN, 300, 7),
        BookRow(3, 30, <<"a">>, <<"a", "b">>, Num(-1), 440, 2),
        BookRow(1, 10, <<"A", "b">>, <<"b">>, Num(0), 400, 9) >>,
     tags |-> <<
        [tag_id |-> Num(1), tag_name |-> Str(<<"a">>)],
        [tag_id |-> Num(2), tag_name |-> Str(<<"b">>)],
        [tag_id |-> Num(3), tag_name |-> NaN],
        [tag_id |-> Num(1), tag_name |-> Str(<<"b">>)] >>,
     ratings |-> <<
        [user_id |-> Num(1), book_id |-> Num(1), rating |-> Num(5)],
        [user_id |-> Num(2), book_id |-> Num(1), rating |-> Num(3)],
        [user_id |-> Num(1), book_id |-> Num(2), rating |-> Num(1)],
        [user_id |-> Num(1), book_id |-> Num(1), rating |-> Num(4)] >>,
     book_tags |-> <<
        [goodreads_book_id |-> Num(10), tag_id |-> Num(1), count |-> Num(5)],
        [goodreads_book_id |-> Num(10), tag_id |-> Num(2), count |-> Num(7)],
        [goodreads_book_id |-> Num(10), tag_id |-> Num(9), count |-> Num(9)],
        [goodreads_book_id |-> Num(10), tag_id |-> Num(1), count |-> Num(7)] >>,
     to_read |-> <<
        [user_id |-> Num(1), book_id |-> Num(1)],
        [user_id |-> Num(1), book_id |-> Num(2)],
        [user_id |-> Num(2), book_id |-> Num(4)],
        [user_id |-> Num(1), book_id |-> Num(1)] >>]

SampleRows == 1..Len(Samples.books)

\* The row positions a file may hold: every sequence of at most MaxRows positions.
Shapes == UNION {[1..n -> SampleRows] : n \in 0..MaxRows}

Source(shape) ==
    [n \in CollectionNames |-> [i \in 1..Len(shape) |-> Samples[n][shape[i]]]]

Sources == {Source(shape) : shape \in Shapes}

-----------------------------------------------------------------------------
(* Responses.                                                              *)

NoResponse == [route |-> "", params |-> None, status |-> 0, body |-> None]

Response(route, params, status, body) ==
    [route |-> route, params |-> params, status |-> status, body |-> body]

NoConcurrent == [p \in {} |-> None]

NoRatings == [k \in Users \X Books |-> 0]

-----------------------------------------------------------------------------
(* The loader as a process: main() creates the indexes, then ingests the   *)
(* five datasets in order; it may be run a second time.                    *)

InitIngest ==
    /\ csv \in Sources
    /\ db = EmptyDb
    /\ indexes = NoIndexes
    /\ loader = 0
    /\ reran = FALSE
    /\ ingested = [n \in CollectionNames |-> 0]
    /\ firstLoad = EmptyDb
    /\ resp = NoResponse
    /\ before = <<>>
    /\ cpc = NoConcurrent /\ creq = NoConcurrent /\ cresp = NoConcurrent
    /\ latest = NoRatings

ServiceUnchanged == UNCHANGED <<resp, before, cpc, creq, cresp, latest>>

\* main(): create_indexes(db)
CreateIndexes ==
    /\ loader = 0
    /\ indexes' = create_indexes
    /\ loader' = 1
    /\ UNCHANGED <<db, csv, ingested, firstLoad, reran>>
    /\ ServiceUnchanged

\* ingest_collection(db, name, url, key_fields): the CSV is read and written.
ingest_collection(name) ==
    /\ loader \in 1..Len(Datasets)
    /\ Datasets[loader] = name
    /\ LET coll == bulk_write(db[name], csv[name], KeyFields[name])
       IN  /\ db' = [db EXCEPT ![name] = coll]
           /\ firstLoad' = IF ingested[name] = 0
                           THEN [firstLoad EXCEPT ![name] = coll] ELSE firstLoad
    /\ ingested' = [ingested EXCEPT ![name] = @ + 1]
    /\ loader' = loader + 1
    /\ UNCHANGED <<indexes, csv, reran>>
    /\ ServiceUnchanged

\* ingest_collection: pd.read_csv or bulk_write raises before anything is
\* written; the exception is printed and main() goes on.
IngestFails(name) ==
    /\ loader \in 1..Len(Datasets)
    /\ Datasets[loader] = name
    /\ loader' = loader + 1
    /\ UNCHANGED <<db, indexes, csv, ingested, firstLoad, reran>>
    /\ ServiceUnchanged

\* The loader is run again against the same sources.
Rerun ==
    /\ loader = Len(Datasets) + 1
    /\ ~reran
    /\ reran' = TRUE
    /\ loader' = 0
    /\ UNCHANGED <<db, indexes, csv, ingested, firstLoad>>
    /\ ServiceUnchanged

NextIngest ==
    \/ CreateIndexes
    \/ \E name \in CollectionNames : ingest_collection(name)
    \/ \E name \in CollectionNames : IngestFails(name)
    \/ Rerun

SpecIngest == InitIngest /\ [][NextIngest]_vars

-----------------------------------------------------------------------------
(* Query primitives of the store.                                          *)

Empty == [k \in {} |-> None]

\* i.pop(key, None) and the projection {key: 0}.
pop(doc, key) == [k \in DOMAIN doc \ {key} |-> doc[k]]

LowerChar == [c \in {"A", "B", "a", "b", "u"} |->
                 CASE c = "A" -> "a" [] c = "B" -> "b" [] OTHER -> c]

CharCode == [c \in {"A", "B", "a", "b", "u"} |->
                CASE c = "A" -> 65 [] c = "B" -> 66 [] c = "a" -> 97
                  [] c = "b" -> 98 [] OTHER -> 117]

lower(s) == [i \in 1..Len(s) |-> LowerChar[s[i]]]

\* {"$regex": pattern, "$options": "i"} on a field value, for a pattern
\* without metacharacters: a case-insensitive, unanchored substring search.
\* Only string values can match.
regex_i(value, pattern) ==
    /\ value.type = "string"
    /\ \E i \in 0..(Len(value.val) - Len(pattern.val)) :
           SubSeq(lower(value.val), i + 1, i + Len(pattern.val)) = lower(pattern.val)

\* {"$gte": bound} / {"$lte": bound}: comparison operators only match values
\* of the bound's type.
Compare(value, op, bound) ==
    /\ value.type = bound.type
    /\ op = "$gte" => value.val >= bound.val
    /\ op = "$lte" => value.val <= bound.val

\* The filter list_books builds from its parameters.
query_filter(q, min_avg, year_from, year_to) ==
    (IF Truthy(q) THEN "$or" :> q ELSE Empty)
    @@ (IF Truthy(min_avg) THEN "average_rating" :> ("$gte" :> min_avg) ELSE Empty)
    @@ (IF Truthy(year_from) \/ Truthy(year_to)
        THEN "original_publication_year" :>
                 ((IF Truthy(year_from) THEN "$gte" :> year_from ELSE Empty)
                  @@ (IF Truthy(year_to) THEN "$lte" :> year_to ELSE Empty))
        ELSE Empty)

\* A book document matches the filter: all present constraints hold.
MatchesQuery(doc, qf) ==
    /\ "$or" \in DOMAIN qf =>
           regex_i(doc.title, qf["$or"]) \/ regex_i(doc.authors, qf["$or"])
    /\ \A f \in DOMAIN qf \ {"$or"} :
           \A op \in DOMAIN qf[f] : Compare(doc[f], op, qf[f][op])

find(coll, qf) == SelectSeq(coll, LAMBDA d : MatchesQuery(d, qf))

count_documents(coll, qf) == Len(find(coll, qf))

\* A faulty skip: the offset is not applied.
skip_nothing(seq, n) == seq

\* cursor.skip(n) and cursor.limit(n)
skip(seq, n) == SubSeq(seq, n + 1, Len(seq))

limit(seq, n) == IF n = 0 THEN seq ELSE SubSeq(seq, 1, IF n < Len(seq) THEN n ELSE Len(seq))

\* BSON comparison order: null < numbers < strings; strings by code point.
TypeRank(v) ==
    CASE v.type = "null" -> 1 [] v.type = "number" -> 2 [] v.type = "string" -> 3 [] OTHER -> 4

RECURSIVE StrLess(_, _)
StrLess(s, t) ==
    IF t = <<>> THEN FALSE
    ELSE IF s = <<>> THEN TRUE
    ELSE IF CharCode[Head(s)] # CharCode[Head(t)] THEN CharCode[Head(s)] < CharCode[Head(t)]
    ELSE StrLess(Tail(s), Tail(t))

BsonLess(a, b) ==
    IF TypeRank(a) # TypeRank(b) THEN TypeRank(a) < TypeRank(b)
    ELSE CASE a.type = "number" -> a.val < b.val
           [] a.type = "string" -> StrLess(a.val, b.val)
           [] OTHER -> FALSE

Perms(n) == {p \in [1..n -> 1..n] : \A i, j \in 1..n : p[i] = p[j] => i = j}

\* A faulty sort: the direction is ignored and the order is ascending.
sort_ascending(docs, field, direction) ==
    {[i \in 1..Len(docs) |-> docs[p[i]]] :
        p \in {p \in Perms(Len(docs)) :
                 \A i \in 1..(Len(docs) - 1) :
                     ~BsonLess(docs[p[i + 1]][field], docs[p[i]][field])}}

\* The orders .sort(field, direction) may return: the order of documents with
\* equal keys is the store's choice.
sort(docs, field, direction) ==
    {[i \in 1..Len(docs) |-> docs[p[i]]] :
        p \in {p \in Perms(Len(docs)) :
                 \A i \in 1..(Len(docs) - 1) :
                     IF direction = 1
                     THEN ~BsonLess(docs[p[i + 1]][field], docs[p[i]][field])
                     ELSE ~BsonLess(docs[p[i]][field], docs[p[i + 1]][field])}}

find_one(coll, filter) ==
    IF FirstMatch(coll, filter) = 0 THEN None ELSE coll[FirstMatch(coll, filter)]

\* Aggregation stages.
match(coll, filter) == SelectSeq(coll, LAMBDA d : Matches(d, filter))

\* {"$lookup": {from, localField, foreignField, as}} followed by
\* {"$unwind": "$as"}: one row per joined document, none when nothing joins.
RECURSIVE lookup_unwind(_, _, _, _, _)
lookup_unwind(rows, from, localField, foreignField, as) ==
    IF rows = <<>> THEN <<>>
    ELSE LET r == Head(rows)
             joined == SelectSeq(from, LAMBDA d : foreignField \in DOMAIN d
                                                  /\ d[foreignField] = r[localField])
         IN  [i \in 1..Len(joined) |-> ApplySet(r, as :> joined[i])]
             \o lookup_unwind(Tail(rows), from, localField, foreignField, as)

Map(seq, Op(_)) == [i \in 1..Len(seq) |-> Op(seq[i])]

-----------------------------------------------------------------------------
(* The service (src/app/main.py): read endpoints.  The service is modelled *)
(* serving one request at a time: a handler runs when no response is       *)
(* pending, and Respond delivers the response.                             *)

API_KEY == Str("secret123")

PageSizeLimit == 100
AuthorLimit == 50

sort_field_map ==
    [avg |-> "average_rating", ratings_count |-> "ratings_count",
     year |-> "original_publication_year", title |-> "title"]

\* Request inputs.
Queries == {None, Str(<<>>), Str(<<"a">>)}
MinAvgs == {None, Num(400)}
YearBounds == {None, Num(0), Num(1)}
Pages == 1..MaxPage
PageSizes == 1..MaxPageSize \cup {PageSizeLimit}
BookIds == {1, 2, 3, 5}
UserIds == {1, 2, 3}
AuthorNames == {Str(<<"a">>), Str(<<"A", "B">>), Str(<<"u">>)}

Idle == resp = NoResponse

LoaderUnchanged == UNCHANGED <<indexes, csv, loader, ingested, firstLoad, reran>>
ConcurrentUnchanged == UNCHANGED <<cpc, creq, cresp, latest>>

\* What a read of the catalog leaves alone.
ReadOnly == UNCHANGED <<db, before>> /\ LoaderUnchanged /\ ConcurrentUnchanged

\* GET /books
list_books(q, min_avg, year_from, year_to, sortKey, order, page, page_size) ==
    /\ Idle
    /\ LET qf == query_filter(q, min_avg, year_from, year_to)
           mongo_order == IF order = "desc" THEN -1 ELSE 1
           total == count_documents(db.books, qf)
       IN  \E sorted \in sort(find(db.books, qf), sort_field_map[sortKey], mongo_order) :
               LET cursor == limit(skip(sorted, (page - 1) * page_size), page_size)
                   items == Map(cursor, LAMBDA i : pop(i, "_id"))
               IN  resp' = Response("/books",
                               [q |-> q, min_avg |-> min_avg, year_from |-> year_from,
                                year_to |-> year_to, sort |-> sortKey, order |-> order,
                                page |-> page, page_size |-> page_size],
                               200,
                               [items |-> items, page |-> page,
                                page_size |-> page_size, total |-> total])
    /\ ReadOnly

\* response_model=Book: the declared field types must validate.
BookModelValid(book) ==
    /\ book.original_publication_year.type \in {"number", "null"}
    /\ book.title.type = "string" /\ book.authors.type = "string"

\* GET /books/{book_id}
get_book_details(book_id) ==
    /\ Idle
    /\ LET found == find_one(db.books, [book_id |-> Num(book_id)])
           book == pop(found, "_id")
       IN  resp' = IF found = None
                   THEN Response("/books/{book_id}", [book_id |-> book_id], 404, None)
                   ELSE IF ~BookModelValid(book)
                   THEN Response("/books/{book_id}", [book_id |-> book_id], 500, None)
                   ELSE Response("/books/{book_id}", [book_id |-> book_id], 200, book)
    /\ ReadOnly

\* The $project stage of get_book_tags.
TagRow(r) == [tag_id |-> r.tag_id, count |-> r.count, tag_name |-> r.tag_info.tag_name]

\* GET /books/{book_id}/tags
get_book_tags(book_id) ==
    /\ Idle
    /\ LET book == find_one(db.books, [book_id |-> Num(book_id)])
       IN  IF book = None
           THEN resp' = Response("/books/{book_id}/tags", [book_id |-> book_id], 404, None)
           ELSE LET gr_id == book.goodreads_book_id
                    joined == lookup_unwind(match(db.book_tags, [goodreads_book_id |-> gr_id]),
                                            db.tags, "tag_id", "tag_id", "tag_info")
                IN  \E tags \in sort(Map(joined, TagRow), "count", -1) :
                        resp' = Response("/books/{book_id}/tags", [book_id |-> book_id], 200,
                                         [book_id |-> book_id, tags |-> tags])
    /\ ReadOnly

\* GET /authors/{author_name}/books
get_author_books(author_name) ==
    /\ Idle
    /\ LET found == SelectSeq(db.books, LAMBDA d : regex_i(d.authors, author_name))
           books == limit(Map(found, LAMBDA d : pop(d, "_id")), AuthorLimit)
       IN  resp' = Response("/authors/{author_name}/books", [author_name |-> author_name],
                            200, [author |-> author_name, count |-> Len(books),
                                  books |-> books])
    /\ ReadOnly

\* GET /tags
get_all_tags(page, page_size) ==
    /\ Idle
    /\ LET total == Len(db.tags)
           tags == limit(skip(Map(db.tags, LAMBDA d : pop(d, "_id")), (page - 1) * page_size),
                         page_size)
       IN  resp' = Response("/tags", [page |-> page, page_size |-> page_size], 200,
                            [items |-> tags, page |-> page, page_size |-> page_size,
                             total |-> total])
    /\ ReadOnly

\* The $project stage of get_user_toread: {"_id": 0, "book": 1}.
ToReadRow(r) == [book |-> r.book]

\* GET /users/{user_id}/to-read
get_user_toread(user_id) ==
    /\ Idle
    /\ LET joined == lookup_unwind(match(db.to_read, [user_id |-> Num(user_id)]),
                                   db.books, "book_id", "book_id", "book")
           items == Map(joined, ToReadRow)
       IN  resp' = Response("/users/{user_id}/to-read", [user_id |-> user_id], 200,
                            [user_id |-> user_id, to_read |-> Map(items, LAMBDA i : i.book)])
    /\ ReadOnly

\* The response leaves the service.
Respond ==
    /\ ~Idle
    /\ resp' = NoResponse
    /\ before' = <<>>
    /\ UNCHANGED db /\ LoaderUnchanged /\ ConcurrentUnchanged

\* The database after main() has run once on the sources.
Loaded(source) == [n \in CollectionNames |-> bulk_write(<<>>, source[n], KeyFields[n])]

\* Files whose rows appear in the order of the sample tables.
OrderedShapes == {s \in Shapes : \A i \in 1..(Len(s) - 1) : s[i] < s[i + 1]}

Init ==
    /\ csv \in {Source(shape) : shape \in OrderedShapes}
    /\ db = Loaded(csv)
    /\ indexes = create_indexes
    /\ loader = Len(Datasets) + 1
    /\ reran = FALSE
    /\ ingested = [n \in CollectionNames |-> 1]
    /\ firstLoad = db
    /\ resp = NoResponse
    /\ before = <<>>
    /\ cpc = NoConcurrent /\ creq = NoConcurrent /\ cresp = NoConcurrent
    /\ latest = NoRatings

Next ==
    \/ \E q \in Queries, min_avg \in MinAvgs, year_from \in YearBounds, year_to \in YearBounds,
          sortKey \in DOMAIN sort_field_map, order \in {"asc", "desc"},
          page \in Pages, page_size \in PageSizes :
              list_books(q, min_avg, year_from, year_to, sortKey, order, page, page_size)
    \/ \E book_id \in BookIds : get_book_details(book_id)
    \/ \E book_id \in BookIds : get_book_tags(book_id)
    \/ \E author_name \in AuthorNames : get_author_books(author_name)
    \/ \E page \in Pages, page_size \in PageSizes : get_all_tags(page, page_size)
    \/ \E user_id \in UserIds : get_user_toread(user_id)
    \/ Respond

Spec == Init /\ [][Next]_vars

-----------------------------------------------------------------------------
(* The service: rating endpoints.                                          *)

\* RatingIn: rating: int = Field(ge=1, le=5)
RatingMin == 1
RatingMax == 5

\* The scores of the histogram: range(1, 6).
HistFirst == 1
HistLast == 5

\* A faulty verify_api_key: any key is accepted, only its presence is checked.
key_is_present(key) == key # None

\* verify_api_key: the x-api-key header (None when absent) must equal API_KEY.
verify_api_key(key) == key = API_KEY

RatingInValid(rating) == RatingMin <= rating /\ rating <= RatingMax

\* Request inputs.
HeaderKeys == {None, API_KEY, Str("wrong")}
ReqRatings == (RatingMin - 1)..(RatingMax + 1)
SummaryBookIds == Books \cup {3}

\* round(x, 2) of x = sum / n, in hundredths: to nearest, ties to even.
Round2(sum, n) ==
    LET q == (100 * sum) \div n
        r == (100 * sum) % n
    IN  IF 2 * r < n THEN q
        ELSE IF 2 * r > n THEN q + 1
        ELSE IF q % 2 = 0 THEN q ELSE q + 1

RECURSIVE SumVals(_)
SumVals(seq) == IF seq = <<>> THEN 0 ELSE Head(seq).val + SumVals(Tail(seq))

\* dist.count(i)
Count(dist, i) == Cardinality({j \in 1..Len(dist) : dist[j] = Num(i)})

\* A faulty rating_summary: the $match stage is missing, every rating counts.
rating_summary_unmatched(ratings, book_id) ==
    LET dist == Map(ratings, LAMBDA d : d.rating)
        hist == [i \in HistFirst..HistLast |-> Count(dist, i)]
    IN  IF ratings = <<>>
        THEN [book_id |-> book_id, average |-> 0, count |-> 0, histogram |-> Empty]
        ELSE [book_id |-> book_id, average |-> Round2(SumVals(dist), Len(dist)),
              count |-> Len(ratings), histogram |-> hist]

\* The body get_rating_summary computes from the ratings collection.
rating_summary(ratings, book_id) ==
    LET data == match(ratings, [book_id |-> Num(book_id)])
        dist == Map(data, LAMBDA d : d.rating)
        hist == [i \in HistFirst..HistLast |-> Count(dist, i)]
    IN  IF data = <<>>
        THEN [book_id |-> book_id, average |-> 0, count |-> 0, histogram |-> Empty]
        ELSE [book_id |-> book_id, average |-> Round2(SumVals(dist), Len(dist)),
              count |-> Len(data), histogram |-> hist]

\* GET /books/{book_id}/ratings/summary
get_rating_summary(book_id) ==
    /\ Idle
    /\ resp' = Response("/books/{book_id}/ratings/summary", [book_id |-> book_id], 200,
                        rating_summary(db.ratings, book_id))
    /\ before' = db.ratings
    /\ UNCHANGED <<db, latest>> /\ LoaderUnchanged
    /\ UNCHANGED <<cpc, creq, cresp>>

\* POST /ratings
upsert_rating(key, user_id, book_id, rating) ==
    /\ Idle
    /\ before' = db.ratings
    /\ LET r == [key |-> key, user_id |-> user_id, book_id |-> book_id, rating |-> rating]
       IN  IF ~verify_api_key(key)
           THEN /\ resp' = Response("/ratings", r, 401, None)
                /\ UNCHANGED <<db, latest>>
           ELSE IF ~RatingInValid(rating)
           THEN /\ resp' = Response("/ratings", r, 422, None)
                /\ UNCHANGED <<db, latest>>
           ELSE LET result == update_one(db.ratings,
                                         [user_id |-> Num(user_id), book_id |-> Num(book_id)],
                                         [rating |-> Num(rating)])
                IN  /\ db' = [db EXCEPT !["ratings"] = result.coll]
                    /\ latest' = [latest EXCEPT ![<<user_id, book_id>>] = rating]
                    /\ resp' = Response("/ratings", r, 200,
                                        [upserted |-> result.upserted_id # None,
                                         matched |-> result.matched_count])
    /\ LoaderUnchanged
    /\ UNCHANGED <<cpc, creq, cresp>>

InitRatings ==
    /\ csv = Source(<<>>)
    /\ db = Loaded(csv)
    /\ indexes = create_indexes
    /\ loader = Len(Datasets) + 1
    /\ reran = FALSE
    /\ ingested = [n \in CollectionNames |-> 1]
    /\ firstLoad = db
    /\ resp = NoResponse
    /\ before = <<>>
    /\ cpc = NoConcurrent /\ creq = NoConcurrent /\ cresp = NoConcurrent
    /\ latest = NoRatings

NextRatings ==
    \/ \E key \in HeaderKeys, user_id \in Users, book_id \in Books, rating \in ReqRatings :
           upsert_rating(key, user_id, book_id, rating)
    \/ \E book_id \in SummaryBookIds : get_rating_summary(book_id)
    \/ Respond

SpecRatings == InitRatings /\ [][NextRatings]_vars

-----------------------------------------------------------------------------
(* Claims about the read endpoints, checked under Spec.                    *)

RECURSIVE SumSeq(_)
SumSeq(seq) == IF seq = <<>> THEN 0 ELSE Head(seq) + SumSeq(Tail(seq))

\* The number of items page k of size page_size holds when total items exist.
PageLen(total, k, page_size) ==
    LET rest == total - (k - 1) * page_size
    IN  IF rest <= 0 THEN 0 ELSE IF rest < page_size THEN rest ELSE page_size

\* The paging facts of one listing of `total` matching records: `body` is the
\* response for page `page` of size `page_size`.
PagingHolds(total, body, page, page_size) ==
    /\ Len(body.items) <= page_size
    /\ body.total = total
    /\ (page - 1) * page_size >= total => body.items = <<>>
    /\ Len(body.items) = PageLen(total, page, page_size)
    /\ SumSeq([k \in 1..(total + 1) |-> PageLen(total, k, page_size)]) = total

\* The size of the full filtered set of a /books request.
BooksMatching(p) ==
    LET qf == query_filter(p.q, p.min_avg, p.year_from, p.year_to)
    IN  Cardinality({i \in 1..Len(db.books) : MatchesQuery(db.books[i], qf)})

\* C4: a listing of /books or /tags with page >= 1 and page_size in 1..100
\* answers 200 with at most page_size items, total = the size of the whole
\* filtered set, no items when (page-1)*page_size >= total, and the item
\* counts of pages 1, 2, 3, ... sum to total.
C4_Pagination ==
    /\ resp.route = "/books" =>
           /\ resp.status = 200
           /\ PagingHolds(BooksMatching(resp.params), resp.body,
                          resp.params.page, resp.params.page_size)
    /\ resp.route = "/tags" =>
           /\ resp.status = 200
           /\ PagingHolds(Len(db.tags), resp.body, resp.params.page, resp.params.page_size)

\* The last, partial page of a filtered listing, and a page beyond the end.
C4_Witness ==
    /\ resp.route = "/books"
    /\ resp.params.year_from = Num(1)
    /\ resp.body.total = 1
    /\ Len(db.books) = 3
    /\ resp.params.page_size = 1
    /\ resp.params.page = 2
    /\ resp.body.items = <<>>

\* The year condition the claim states for a book.
YearClaim(book, year_from, year_to) ==
    \/ year_from = None /\ year_to = None
    \/ /\ book.original_publication_year.type = "number"
       /\ year_from # None => book.original_publication_year.val >= year_from.val
       /\ year_to # None => book.original_publication_year.val <= year_to.val

\* C5: with no other constraint, list_books matches exactly the books that
\* have a numeric original_publication_year within the given bounds (a bound
\* given as any integer, 0 included); a book without a year matches only when
\* no bound is given.
C5_YearFilter ==
    (resp.route = "/books" /\ resp.params.q = None /\ resp.params.min_avg = None) =>
        /\ resp.body.total =
               Cardinality({i \in 1..Len(db.books) :
                   YearClaim(db.books[i], resp.params.year_from, resp.params.year_to)})
        /\ \A i \in 1..Len(resp.body.items) :
               YearClaim(resp.body.items[i], resp.params.year_from, resp.params.year_to)

\* The records a response carries.
RecordsOf(r) ==
    IF r.status # 200 THEN <<>>
    ELSE CASE r.route = "/books" -> r.body.items
           [] r.route = "/books/{book_id}" -> <<r.body>>
           [] r.route = "/books/{book_id}/tags" -> r.body.tags
           [] r.route = "/authors/{author_name}/books" -> r.body.books
           [] r.route = "/tags" -> r.body.items
           [] r.route = "/users/{user_id}/to-read" -> r.body.to_read
           [] OTHER -> <<>>

\* C6: no record returned by a read endpoint carries the storage identifier.
C6_NoInternalId ==
    \A i \in 1..Len(RecordsOf(resp)) : "_id" \notin DOMAIN RecordsOf(resp)[i]

\* The BookTag records that belong in the tags of a book: same
\* goodreads_book_id, and a Tag with their tag_id exists.
TaggedRows(book) ==
    {i \in 1..Len(db.book_tags) :
        /\ db.book_tags[i].goodreads_book_id = book.goodreads_book_id
        /\ \E t \in 1..Len(db.tags) : db.tags[t].tag_id = db.book_tags[i].tag_id}

TagNameOf(tag_id) == db.tags[CHOOSE t \in 1..Len(db.tags) : db.tags[t].tag_id = tag_id].tag_name

\* C8: get_book_tags answers 404 exactly when no Book has the book_id;
\* otherwise its tags are one row {tag_id, count, tag_name} per BookTag record
\* of the book that has a Tag, by count non-increasing.
C8_BookTags ==
    resp.route = "/books/{book_id}/tags" =>
        LET S == {i \in 1..Len(db.books) : db.books[i].book_id = Num(resp.params.book_id)}
        IN  /\ resp.status = 404 <=> S = {}
            /\ S # {} =>
                 LET book == db.books[CHOOSE i \in S : TRUE]
                     rows == resp.body.tags
                     Q == TaggedRows(book)
                 IN  /\ resp.status = 200
                     /\ resp.body.book_id = resp.params.book_id
                     /\ Len(rows) = Cardinality(Q)
                     /\ \E f \in [1..Len(rows) -> Q] :
                            /\ \A a, b \in 1..Len(rows) : f[a] = f[b] => a = b
                            /\ \A k \in 1..Len(rows) :
                                   rows[k] = [tag_id |-> db.book_tags[f[k]].tag_id,
                                              count |-> db.book_tags[f[k]].count,
                                              tag_name |-> TagNameOf(db.book_tags[f[k]].tag_id)]
                     /\ \A k \in 1..(Len(rows) - 1) : rows[k].count.val >= rows[k + 1].count.val

\* A book with three BookTag records, one of them without a Tag: two rows,
\* the larger count first.
C8_Witness ==
    /\ resp.route = "/books/{book_id}/tags"
    /\ resp.status = 200
    /\ Len(db.book_tags) = 3
    /\ Len(resp.body.tags) = 2
    /\ resp.body.tags[1].count.val > resp.body.tags[2].count.val

-----------------------------------------------------------------------------
(* Claims about the rating endpoints, checked under SpecRatings.           *)

\* The positions of the Rating records of a (user_id, book_id) key.
RatingsOf(ratings, user_id, book_id) ==
    {i \in 1..Len(ratings) :
        ratings[i].user_id = Num(user_id) /\ ratings[i].book_id = Num(book_id)}

Authorized(r) == r.route = "/ratings" /\ r.params.key = API_KEY
                 /\ r.params.rating \in RatingMin..RatingMax

\* C2: an authorized upsert of (user_id, book_id, rating) answers
\* upserted=true, matched=0 exactly when no record of the key existed before
\* it, and upserted=false, matched=1 otherwise; it leaves exactly one record
\* of the key, holding the rating; submitted again (the record already holds
\* the rating) it leaves the collection as it was.  Two submissions in
\* sequence are two such steps: the second finds the record of the first.
C2_UpsertIdempotent ==
    Authorized(resp) =>
        LET p == resp.params
            existed == RatingsOf(before, p.user_id, p.book_id) # {}
            now == RatingsOf(db.ratings, p.user_id, p.book_id)
        IN  /\ resp.status = 200
            /\ (resp.body.upserted /\ resp.body.matched = 0) <=> ~existed
            /\ existed => (~resp.body.upserted /\ resp.body.matched = 1)
            /\ Cardinality(now) = 1
            /\ \A i \in now : db.ratings[i].rating = Num(p.rating)
            /\ (\E i \in RatingsOf(before, p.user_id, p.book_id) :
                    before[i].rating = Num(p.rating)) => db.ratings = before

\* The second of two identical submissions: the record is there with the
\* rating, beside the records of other keys.
C2_Witness ==
    /\ Authorized(resp)
    /\ \E i \in RatingsOf(before, resp.params.user_id, resp.params.book_id) :
           before[i].rating = Num(resp.params.rating)
    /\ Len(before) = 3
    /\ ~resp.body.upserted
    /\ resp.body.matched = 1

\* C3: a POST /ratings whose x-api-key is missing or differs from the API
\* key is answered 401 and leaves the Rating collection as it was, whatever
\* its body.
C3_UnauthorizedNoWrite ==
    (resp.route = "/ratings" /\ resp.params.key # API_KEY) =>
        /\ resp.status = 401
        /\ db.ratings = before

\* A well-formed body for a new key, with a wrong key, on a non-empty collection.
C3_Witness ==
    /\ resp.route = "/ratings"
    /\ resp.params.key = Str("wrong")
    /\ resp.params.rating = 5
    /\ resp.status = 401
    /\ Len(db.ratings) = 1
    /\ RatingsOf(db.ratings, resp.params.user_id, resp.params.book_id) = {}

\* C7: the summary of a book counts its Rating records; with at least one,
\* the histogram has the keys 1..5, each with the number of the book's records
\* of that score, and the buckets sum to count; with none, it is average 0,
\* count 0 and an empty histogram.  The answer is always 200.
C7_RatingSummary ==
    resp.route = "/books/{book_id}/ratings/summary" =>
        LET b == resp.params.book_id
            R == {i \in 1..Len(db.ratings) : db.ratings[i].book_id = Num(b)}
            h == resp.body.histogram
        IN  /\ resp.status = 200
            /\ resp.body.count = Cardinality(R)
            /\ R # {} =>
                 /\ DOMAIN h = 1..5
                 /\ \A s \in 1..5 :
                        h[s] = Cardinality({i \in R : db.ratings[i].rating = Num(s)})
                 /\ h[1] + h[2] + h[3] + h[4] + h[5] = resp.body.count
            /\ R = {} => /\ resp.body.average = 0
                         /\ resp.body.count = 0
                         /\ DOMAIN h = {}

\* Two ratings of one book with different scores, and a rating of another book.
C7_Witness ==
    /\ resp.route = "/books/{book_id}/ratings/summary"
    /\ resp.body.count = 2
    /\ Len(db.ratings) = 3
    /\ resp.body.histogram[5] = 1
    /\ resp.body.histogram[2] = 1
    /\ resp.body.average = 350

\* The users whose rating of a book has been upserted.
RatersOf(book_id) ==
    IF book_id \in Books THEN {u \in Users : latest[<<u, book_id>>] # 0} ELSE {}

\* C10: starting from no ratings, the summary of a book counts the distinct
\* users that have upserted a rating of it, each once under the rating of
\* that user's last upsert; an upsert for another book leaves the summary of
\* the book as it was.
C10_SummaryTracksUpserts ==
    /\ resp.route = "/books/{book_id}/ratings/summary" =>
           LET b == resp.params.book_id
               U == RatersOf(b)
           IN  /\ resp.body.count = Cardinality(U)
               /\ U # {} => \A s \in 1..5 :
                      resp.body.histogram[s] =
                          Cardinality({u \in U : latest[<<u, b>>] = s})
               /\ U = {} => DOMAIN resp.body.histogram = {}
    /\ (resp.route = "/ratings" /\ resp.status = 200) =>
           \A b \in SummaryBookIds \ {resp.params.book_id} :
               rating_summary(db.ratings, b) = rating_summary(before, b)
    /\ resp.route = "/ratings" /\ resp.status # 200 =>
           \A b \in SummaryBookIds :
               rating_summary(db.ratings, b) = rating_summary(before, b)

\* A user has rated the book twice with different scores and another user
\* once: the summary holds two ratings.
C10_Witness ==
    /\ resp.route = "/books/{book_id}/ratings/summary"
    /\ resp.params.book_id = 1
    /\ latest[<<1, 1>>] = 4
    /\ latest[<<2, 1>>] = 2
    /\ latest[<<1, 2>>] = 5
    /\ db.ratings[1].rating = Num(2)
    /\ resp.body.count = 2

-----------------------------------------------------------------------------
(* Concurrent POST /ratings requests.  Each request is a process.  The     *)
(* store runs update_one(..., upsert=True) as a query followed, when the   *)
(* query finds nothing, by an insert; other requests may run in between.   *)
(* The insert is checked against the unique indexes of the collection: on  *)
(* a duplicate key the store either retries the operation as an update or  *)
(* fails it with DuplicateKeyError, depending on its version.              *)

Requests == 1..MaxConcurrent

\* The insert would break a unique index of the ratings collection.
DuplicateKey(ratings, doc) ==
    \E key \in indexes["ratings"] :
        \E i \in 1..Len(ratings) : \A k \in key : ratings[i][k] = doc[k]

RatingFilter(r) == [user_id |-> Num(r.user_id), book_id |-> Num(r.book_id)]

\* upsert_rating, up to the end of the query phase of update_one.
ConcUpsertRating(p, key, user_id, book_id, rating) ==
    /\ cpc[p] = "new"
    /\ LET r == [user_id |-> user_id, book_id |-> book_id, rating |-> rating]
           i == FirstMatch(db.ratings, RatingFilter(r))
       IN  IF ~verify_api_key(key)
           THEN /\ cresp' = [cresp EXCEPT ![p] = Response("/ratings", None, 401, None)]
                /\ cpc' = [cpc EXCEPT ![p] = "done"]
                /\ UNCHANGED <<db, latest, creq>>
           ELSE IF ~RatingInValid(rating)
           THEN /\ cresp' = [cresp EXCEPT ![p] = Response("/ratings", None, 422, None)]
                /\ cpc' = [cpc EXCEPT ![p] = "done"]
                /\ UNCHANGED <<db, latest, creq>>
           ELSE IF i # 0
           THEN /\ db' = [db EXCEPT !["ratings"][i] = ApplySet(@, [rating |-> Num(rating)])]
                /\ latest' = [latest EXCEPT ![<<user_id, book_id>>] = rating]
                /\ cresp' = [cresp EXCEPT ![p] =
                                Response("/ratings", None, 200,
                                         [upserted |-> FALSE, matched |-> 1])]
                /\ cpc' = [cpc EXCEPT ![p] = "done"]
                /\ UNCHANGED creq
           ELSE /\ creq' = [creq EXCEPT ![p] = r]
                /\ cpc' = [cpc EXCEPT ![p] = "insert"]
                /\ UNCHANGED <<db, latest, cresp>>
    /\ UNCHANGED <<resp, before>> /\ LoaderUnchanged

\* The insert phase: the document is inserted, or, the key having been
\* inserted meanwhile, the store retries the operation and updates it.
ConcInsert(p) ==
    /\ cpc[p] = "insert"
    /\ LET r == creq[p]
           doc == UpsertDoc(db.ratings, RatingFilter(r), [rating |-> Num(r.rating)])
           i == FirstMatch(db.ratings, RatingFilter(r))
       IN  IF DuplicateKey(db.ratings, doc)
           THEN /\ db' = [db EXCEPT !["ratings"][i] = ApplySet(@, [rating |-> Num(r.rating)])]
                /\ cresp' = [cresp EXCEPT ![p] =
                                Response("/ratings", None, 200,
                                         [upserted |-> FALSE, matched |-> 1])]
                /\ latest' = [latest EXCEPT ![<<r.user_id, r.book_id>>] = r.rating]
           ELSE /\ db' = [db EXCEPT !["ratings"] = Append(@, doc)]
                /\ cresp' = [cresp EXCEPT ![p] =
                                Response("/ratings", None, 200,
                                         [upserted |-> TRUE, matched |-> 0])]
                /\ latest' = [latest EXCEPT ![<<r.user_id, r.book_id>>] = r.rating]
    /\ cpc' = [cpc EXCEPT ![p] = "done"]
    /\ UNCHANGED <<resp, before, creq>> /\ LoaderUnchanged

\* The insert phase on a store that does not retry: update_one raises
\* DuplicateKeyError and the request fails without writing.
ConcDuplicateKeyError(p) ==
    /\ cpc[p] = "insert"
    /\ DuplicateKey(db.ratings,
                    UpsertDoc(db.ratings, RatingFilter(creq[p]), [rating |-> Num(creq[p].rating)]))
    /\ cresp' = [cresp EXCEPT ![p] = Response("/ratings", None, 500, None)]
    /\ cpc' = [cpc EXCEPT ![p] = "done"]
    /\ UNCHANGED <<db, latest, resp, before, creq>> /\ LoaderUnchanged

InitConc ==
    /\ csv = Source(<<>>)
    /\ db = Loaded(csv)
    /\ indexes = create_indexes
    /\ loader = Len(Datasets) + 1
    /\ reran = FALSE
    /\ ingested = [n \in CollectionNames |-> 1]
    /\ firstLoad = db
    /\ resp = NoResponse
    /\ before = <<>>
    /\ cpc = [p \in Requests |-> "new"]
    /\ creq = [p \in Requests |-> None]
    /\ cresp = [p \in Requests |-> NoResponse]
    /\ latest = NoRatings

NextConc ==
    \/ \E p \in Requests, key \in HeaderKeys, user_id \in Users, book_id \in Books,
          rating \in ReqRatings :
              ConcUpsertRating(p, key, user_id, book_id, rating)
    \/ \E p \in Requests : ConcInsert(p)
    \/ \E p \in Requests : ConcDuplicateKeyError(p)

SpecConc == InitConc /\ [][NextConc]_vars

-----------------------------------------------------------------------------
(* C9: ingestion is idempotent.                                            *)

KeyOf(doc, name) == [k \in KeyFields[name] |-> doc[k]]

WithoutId(doc) == [k \in DOMAIN doc \ {"_id"} |-> doc[k]]

\* The source row that decides a key: the last one carrying it, with missing
\* cells as the empty string.
LastRowWithKey(name, key) ==
    LET rows == csv[name]
        S == {i \in 1..Len(rows) : KeyOf(fillna(rows[i]), name) = key}
    IN  fillna(rows[CHOOSE i \in S : \A j \in S : j <= i])

SourceKeys(name) == {KeyOf(fillna(csv[name][i]), name) : i \in 1..Len(csv[name])}

DocsWithKey(coll, name, key) == {i \in 1..Len(coll) : KeyOf(coll[i], name) = key}

\* C9: once a dataset has been ingested, (a) every later run of
\* ingest_collection on the same rows leaves the collection as the first run
\* left it, (b) no two records share the declared unique key and every key of
\* the source has exactly one record, (c) whose fields are those of the source
\* row, a missing value stored as the empty string.
C9_IngestIdempotent ==
    \A name \in CollectionNames :
        ingested[name] >= 1 =>
            /\ db[name] = firstLoad[name]
            /\ \A i, j \in 1..Len(db[name]) :
                   KeyOf(db[name][i], name) = KeyOf(db[name][j], name) => i = j
            /\ \A key \in SourceKeys(name) :
                   /\ Cardinality(DocsWithKey(db[name], name, key)) = 1
                   /\ \A i \in DocsWithKey(db[name], name, key) :
                          /\ WithoutId(db[name][i]) = LastRowWithKey(name, key)
                          /\ \A k \in DOMAIN db[name][i] : db[name][i][k] # NaN

\* A dataset with a repeated key and a missing cell has been ingested twice.
C9_Witness ==
    /\ ingested["books"] = 2
    /\ Len(csv["books"]) = 3
    /\ Cardinality(SourceKeys("books")) = 2
    /\ \E i \in 1..3 : csv["books"][i].original_publication_year = NaN
    /\ ingested["ratings"] = 2
    /\ Len(db["ratings"]) = 2

====
